---- MODULE Spec2Model ----
(***************************************************************************)
(* A model of the TS480 transceiver handle of src/src/lib.rs: the handle   *)
(* (struct TS480), its operations, its Drop implementation and the private *)
(* classifier check_for_error, together with the serial transport the      *)
(* handle drives.  Text and payloads are sequences of byte values          *)
(* (0..255), so "BD;" is <<66, 68, 59>>.                                   *)
(*                                                                         *)
(* The transport is the environment: every call the code makes on it       *)
(* (serial::open, set_rts, set_dtr, Write::write, Read::read_to_end) may   *)
(* succeed or fail, a write may accept fewer bytes than it was given       *)
(* (what std::io::Write::write allows), and the device may put bytes into  *)
(* the channel at any time.  trace records the transport calls in the      *)
(* order they are issued, ops records the handle operations with the       *)
(* span of trace each one produced.                                        *)
(***************************************************************************)
EXTENDS Integers, Sequences, FiniteSets, TLC

\* ------------------------------------------------------------------ bounds

\* operations called on a handle between new and drop, per behaviour
MaxOps == 2
\* bytes the device may have pending in a channel in Spec
MaxRx == 1
\* length of the byte stream a channel yields in SpecReceive
MaxLen == 4
\* length of the text handed to the classifier in SpecClassify
MaxClsLen == 4
\* length of the byte stream a channel yields in SpecFault
MaxFaultLen == 3
\* bytes the device sends during one receive in SpecBlocking
MaxStream == 3

\* ------------------------------------------------------------------ inputs

\* the addresses a caller may pass to new
Addrs == {"/dev/ttyS0", "COM1"}
\* the largest selector set_antenna can be handed: p1 is a u8
MaxSelector == 255
\* channel identities; 0 stands for "no channel"
Chans == 1..(MaxOps + 1)
\* payloads a caller hands to transmit in Spec: "A;"
Payloads == {<<65, 59>>}
\* selectors a caller hands to set_antenna in Spec
Selectors == {1}
\* bytes the device sends in Spec: 'A'
DevBytes == {65}
\* bytes a channel yields in SpecReceive: NUL, LF, ';', 'A', 'B', DEL, 0x80, 0xFF
RxBytes == {0, 10, 59, 65, 66, 127, 128, 255}
\* bytes a channel yields in SpecFault: ';', '?', 'E', 'O', 0xFF
FaultBytes == {59, 63, 69, 79, 255}
\* bytes the device sends in SpecBlocking: ';', 'A'
StreamBytes == {59, 65}
\* characters of classifier inputs: '1', ';', '?', 'A', 'E', 'N', 'O', 'x'
ClsChars == {49, 59, 63, 65, 69, 78, 79, 120}

BoundedSeq(S, n) == UNION {[1..m -> S] : m \in 0..n}

\* ------------------------------------------------------------------- state

VARIABLES
    handle,     \* "none" (not constructed), "open", "dropped"
    port,       \* TS480.port: the channel the handle owns (0: none)
    port_name,  \* TS480.port_name: the address recorded by new
    trace,      \* the transport calls issued so far, in order
    ops,        \* the handle operations called so far, in order
    result,     \* what the last handle operation returned
    rts,        \* per channel: the request-to-send line as last set
    dtr,        \* per channel: the data-terminal-ready line as last set
    written,    \* per channel: the bytes the channel accepted, in order
    rxbuf,      \* per channel: bytes sent by the device, not yet read
    closed,     \* the channels that have been closed
    clsIn,      \* the text handed to check_for_error
    clsOut,     \* what check_for_error returned ("unapplied" before)
    pc,         \* where a receive taken call by call stands: "idle" (not in
                \* receive) or "read_to_end" (blocked in the read)
    readbuf,    \* receive's local buf: the bytes read_to_end has read so far
    eos         \* whether the transport has signalled end-of-stream

vars == <<handle, port, port_name, trace, ops, result, rts, dtr, written,
          rxbuf, closed, clsIn, clsOut, pc, readbuf, eos>>

hvars == <<handle, port, port_name>>
cvars == <<clsIn, clsOut>>
rvars == <<pc, readbuf, eos>>

\* ----------------------------------------------------------------- helpers

\* one transport call, as a recording transport would log it
Call(c, ch, a, ok) == [call |-> c, chan |-> ch, addr |-> a, ok |-> ok]

\* one handle operation: its name, argument bytes, outcome and the span
\* from..to of trace it produced (from > to: no call)
Op(o, a, r, f, t) == [op |-> o, arg |-> a, res |-> r, from |-> f, to |-> t]

\* the return value of a handle operation
Ret(o, k, t) == [op |-> o, kind |-> k, text |-> t]

\* the number of channels opened so far; the next one gets the next number
NumOpened == Len(SelectSeq(trace, LAMBDA c : c.call = "open" /\ c.ok))

\* the last successful setting of a control line among calls on channel ch,
\* or its state before them when there is none
RECURSIVE LineAfter(_, _, _, _, _)
LineAfter(line, calls, ch, setOn, setOff) ==
    IF calls = << >> THEN line
    ELSE LET c == Head(calls)
             l == IF c.chan = ch /\ c.ok /\ c.call = setOn THEN "on"
                  ELSE IF c.chan = ch /\ c.ok /\ c.call = setOff THEN "off"
                  ELSE line
         IN  LineAfter(l, Tail(calls), ch, setOn, setOff)

\* the transport executes calls, in order: they are logged, the control
\* lines follow the successful set_rts/set_dtr calls and the channels named
\* by close calls are closed
Issue(calls) ==
    /\ trace' = trace \o calls
    /\ rts' = [ch \in Chans |->
                  LineAfter(rts[ch], calls, ch, "set_rts(true)", "set_rts(false)")]
    /\ dtr' = [ch \in Chans |->
                  LineAfter(dtr[ch], calls, ch, "set_dtr(true)", "set_dtr(false)")]
    /\ closed' = closed \cup
                  {calls[i].chan : i \in {j \in DOMAIN calls : calls[j].call = "close"}}

\* the handle operation o(a) returned r after issuing calls
Returns(o, a, r, calls) ==
    /\ result' = r
    /\ ops' = Append(ops, Op(o, a, r.kind, Len(trace) + 1, Len(trace) + Len(calls)))

\* --------------------------------------------------------- pure functions

\* mutant: every byte converts, as with a plain cast to char
to_ascii_char_cast(num) == num < 256

\* u8::to_ascii_char succeeds exactly on the bytes below 128
to_ascii_char(num) == num < 128

\* mutant: a lossy decode that puts '?' in place of a byte that does not
\* convert
RECURSIVE decode_substitute(_)
decode_substitute(buf) ==
    IF buf = << >> THEN << >>
    ELSE IF Head(buf) < 128
         THEN <<Head(buf)>> \o decode_substitute(Tail(buf))
         ELSE <<63>> \o decode_substitute(Tail(buf))

\* the loop of receive: push every byte that converts, in order
RECURSIVE decode(_)
decode(buf) ==
    IF buf = << >> THEN << >>
    ELSE IF to_ascii_char(Head(buf))
         THEN <<Head(buf)>> \o decode(Tail(buf))
         ELSE decode(Tail(buf))

\* the decimal digits of a u8, as format!("{}") prints them
RECURSIVE Digits(_)
Digits(n) ==
    IF n < 10 THEN <<48 + n>> ELSE Digits(n \div 10) \o <<48 + (n % 10)>>

\* mutant: the selector printed in a fixed width of three digits ({:03})
set_antenna_command_padded(p1) ==
    <<65, 78, 48 + (p1 \div 100), 48 + ((p1 \div 10) % 10), 48 + (p1 % 10), 59>>

\* format!("AN{};", p1)
set_antenna_command(p1) == <<65, 78>> \o Digits(p1) \o <<59>>
\* "BD;"
frequency_down_command == <<66, 68, 59>>
\* "BU;"
frequency_up_command == <<66, 85, 59>>

\* mutant: the markers matched as prefixes (starts_with) instead of exactly
check_for_error_prefix(e) ==
    IF Len(e) >= 2 /\ SubSeq(e, 1, 2) = <<63, 59>> THEN "SyntaxOrStatus"
    ELSE IF Len(e) >= 2 /\ SubSeq(e, 1, 2) = <<69, 59>> THEN "CommError"
    ELSE IF Len(e) >= 2 /\ SubSeq(e, 1, 2) = <<79, 59>> THEN "ProcIncomplete"
    ELSE "None"

\* the match of check_for_error on "?;", "E;", "O;"
check_for_error(e) ==
    IF e = <<63, 59>> THEN "SyntaxOrStatus"
    ELSE IF e = <<69, 59>> THEN "CommError"
    ELSE IF e = <<79, 59>> THEN "ProcIncomplete"
    ELSE "None"

\* ------------------------------------------------------------- operations

\* serial::open(port) inside new: the handle exists only when it succeeds
new_calls(addr, ok) ==
    <<Call("open", IF ok THEN NumOpened + 1 ELSE 0, addr, ok)>>

\* mutant: the result of serial::open is not looked at and a handle is
\* made in either case
new_unchecked(addr, ok) ==
    /\ handle = "none"
    /\ ops = << >>
    /\ Issue(new_calls(addr, ok))
    /\ Returns("new", << >>,
               Ret("new", IF ok THEN "ok" ELSE "open_error", << >>),
               new_calls(addr, ok))
    /\ handle' = "open"
    /\ port' = NumOpened + 1
    /\ port_name' = addr
    /\ UNCHANGED <<written, rxbuf, cvars, rvars>>

new(addr, ok) ==
    /\ handle = "none"
    /\ ops = << >>
    /\ Issue(new_calls(addr, ok))
    /\ Returns("new", << >>,
               Ret("new", IF ok THEN "ok" ELSE "open_error", << >>),
               new_calls(addr, ok))
    /\ IF ok
       THEN /\ handle' = "open"
            /\ port' = NumOpened + 1
            /\ port_name' = addr
       ELSE UNCHANGED hvars
    /\ UNCHANGED <<written, rxbuf, cvars, rvars>>

\* mutant: the old port is dropped before the address is opened again
reconnect_calls_close_first(ok) ==
    <<Call("close", port, port_name, TRUE),
      Call("open", IF ok THEN NumOpened + 1 ELSE 0, port_name, ok)>>

\* mutant: the lines of the old port are reset, as in drop, before it is
\* replaced
reconnect_calls_reset(ok) ==
    IF ok
    THEN <<Call("open", NumOpened + 1, port_name, TRUE),
           Call("set_rts(false)", port, port_name, TRUE),
           Call("set_dtr(true)", port, port_name, TRUE),
           Call("close", port, port_name, TRUE)>>
    ELSE <<Call("open", 0, port_name, FALSE)>>

\* mutant: reconnect opens a fixed address, not the recorded one
reconnect_calls_fixed_address(ok) ==
    IF ok
    THEN <<Call("open", NumOpened + 1, "/dev/ttyS0", TRUE),
           Call("close", port, port_name, TRUE)>>
    ELSE <<Call("open", 0, "/dev/ttyS0", FALSE)>>

\* self.port = serial::open(&self.port_name)?: the new channel is opened
\* first; only when that succeeded is the old one replaced, and so closed
reconnect_calls(ok) ==
    IF ok
    THEN <<Call("open", NumOpened + 1, port_name, TRUE),
           Call("close", port, port_name, TRUE)>>
    ELSE <<Call("open", 0, port_name, FALSE)>>

reconnect(ok) ==
    /\ handle = "open"
    /\ Len(ops) <= MaxOps
    /\ Issue(reconnect_calls(ok))
    /\ Returns("reconnect", << >>,
               Ret("reconnect", IF ok THEN "ok" ELSE "open_error", << >>),
               reconnect_calls(ok))
    /\ port' = IF ok THEN NumOpened + 1 ELSE port
    /\ UNCHANGED <<handle, port_name, written, rxbuf, cvars, rvars>>

\* mutant: the acknowledgement of the device is read after the write
transmit_calls_ack(okRts, w) ==
    IF okRts
    THEN IF w >= 0
         THEN <<Call("set_rts(true)", port, port_name, TRUE),
                Call("write", port, port_name, TRUE),
                Call("read_to_end", port, port_name, TRUE)>>
         ELSE <<Call("set_rts(true)", port, port_name, TRUE),
                Call("write", port, port_name, FALSE)>>
    ELSE <<Call("set_rts(true)", port, port_name, FALSE)>>

\* mutant: the write is issued before the line is asserted
transmit_calls_write_first(okRts, w) ==
    IF w >= 0
    THEN <<Call("write", port, port_name, TRUE),
           Call("set_rts(true)", port, port_name, okRts)>>
    ELSE <<Call("write", port, port_name, FALSE)>>

\* mutant: the line is released again once the write has returned
transmit_calls_release(okRts, w) ==
    IF okRts
    THEN <<Call("set_rts(true)", port, port_name, TRUE),
           Call("write", port, port_name, w >= 0),
           Call("set_rts(false)", port, port_name, TRUE)>>
    ELSE <<Call("set_rts(true)", port, port_name, FALSE)>>

\* mutant: the result of set_rts(true) is not looked at (no ?)
transmit_calls_ignore_rts(okRts, w) ==
    <<Call("set_rts(true)", port, port_name, okRts),
      Call("write", port, port_name, w >= 0)>>

\* transmit: set_rts(true)?, then write(data)?; w is what write returned,
\* -1 for Err and n for Ok(n), the number of bytes the channel accepted
transmit_calls(okRts, w) ==
    IF okRts
    THEN <<Call("set_rts(true)", port, port_name, TRUE),
           Call("write", port, port_name, w >= 0)>>
    ELSE <<Call("set_rts(true)", port, port_name, FALSE)>>

\* Ok(Ok(())) unless one of the two calls failed; the count is not looked at
transmit_ret(okRts, w) == IF okRts /\ w >= 0 THEN "ok" ELSE "io_error"

\* the bytes the channel accepts from a transmit
transmit_accepted(data, okRts, w) ==
    IF okRts /\ w >= 0 THEN SubSeq(data, 1, w) ELSE << >>

transmit(o, data, okRts, w) ==
    /\ handle = "open"
    /\ Len(ops) <= MaxOps
    /\ w \in -1..Len(data)
    /\ Issue(transmit_calls(okRts, w))
    /\ Returns(o, data, Ret(o, transmit_ret(okRts, w), << >>),
               transmit_calls(okRts, w))
    /\ written' = [written EXCEPT ![port] = @ \o transmit_accepted(data, okRts, w)]
    /\ UNCHANGED <<hvars, rxbuf, cvars, rvars>>

set_antenna(p1, okRts, w) ==
    transmit("set_antenna", set_antenna_command(p1), okRts, w)

frequency_down(okRts, w) ==
    transmit("frequency_down", frequency_down_command, okRts, w)

frequency_up(okRts, w) ==
    transmit("frequency_up", frequency_up_command, okRts, w)

\* mutant: the result of set_rts(false) is not looked at (no ?)
receive_calls_ignore_rts(okRts, okRead) ==
    <<Call("set_rts(false)", port, port_name, okRts),
      Call("read_to_end", port, port_name, okRead)>>

\* receive: set_rts(false)?, then read_to_end(&mut buf)?
receive_calls(okRts, okRead) ==
    IF okRts
    THEN <<Call("set_rts(false)", port, port_name, TRUE),
           Call("read_to_end", port, port_name, okRead)>>
    ELSE <<Call("set_rts(false)", port, port_name, FALSE)>>

\* mutant: a failed read still returns what had been read before it failed
receive_ret_partial(okRts, okRead, buf) ==
    IF okRts
    THEN Ret("receive", "ok", decode(buf))
    ELSE Ret("receive", "io_error", << >>)

\* mutant: receive applies the classifier to the text and returns the
\* fault it finds as Ok(Err(RadioError))
receive_ret_classified(okRts, okRead, buf) ==
    IF okRts /\ okRead
    THEN IF check_for_error(decode(buf)) = "None"
         THEN Ret("receive", "ok", decode(buf))
         ELSE Ret("receive", "radio_error", << >>)
    ELSE Ret("receive", "io_error", << >>)

\* buf holds the bytes read; it is decoded only when both calls succeeded
receive_ret(okRts, okRead, buf) ==
    IF okRts /\ okRead
    THEN Ret("receive", "ok", decode(buf))
    ELSE Ret("receive", "io_error", << >>)

\* read_to_end takes k bytes out of the channel: all that come before
\* end-of-stream when it succeeds, any prefix of them when it fails
receive(okRts, okRead, k) ==
    /\ handle = "open"
    /\ Len(ops) <= MaxOps
    /\ k \in 0..Len(rxbuf[port])
    /\ okRead => k = Len(rxbuf[port])
    /\ ~okRts => k = 0 /\ ~okRead
    /\ Issue(receive_calls(okRts, okRead))
    /\ Returns("receive", SubSeq(rxbuf[port], 1, k),
               receive_ret(okRts, okRead, SubSeq(rxbuf[port], 1, k)),
               receive_calls(okRts, okRead))
    /\ rxbuf' = [rxbuf EXCEPT ![port] = SubSeq(@, k + 1, Len(@))]
    /\ UNCHANGED <<hvars, written, cvars, rvars>>

\* mutant: the two lines are reset in the other order
drop_calls_dtr_first(ok1, ok2) ==
    <<Call("set_dtr(true)", port, port_name, ok2),
      Call("set_rts(false)", port, port_name, ok1),
      Call("close", port, port_name, TRUE)>>

\* mutant: set_dtr(true) is issued only when set_rts(false) succeeded
drop_calls_abort(ok1, ok2) ==
    IF ok1
    THEN <<Call("set_rts(false)", port, port_name, TRUE),
           Call("set_dtr(true)", port, port_name, ok2),
           Call("close", port, port_name, TRUE)>>
    ELSE <<Call("set_rts(false)", port, port_name, FALSE),
           Call("close", port, port_name, TRUE)>>

\* receive taken call by call.  receive_begin: buf is made, set_rts(false)?
\* is issued, and when it succeeded the thread enters read_to_end
receive_begin(okRts) ==
    /\ handle = "open"
    /\ pc = "idle"
    /\ Len(ops) = 1
    /\ Issue(<<Call("set_rts(false)", port, port_name, okRts)>>)
    /\ readbuf' = << >>
    /\ IF okRts
       THEN /\ pc' = "read_to_end"
            /\ UNCHANGED <<result, ops>>
       ELSE /\ pc' = "idle"
            /\ Returns("receive", << >>, receive_ret(FALSE, FALSE, << >>),
                       <<Call("set_rts(false)", port, port_name, FALSE)>>)
    /\ UNCHANGED <<hvars, written, rxbuf, cvars, eos>>

\* read_to_end appends to buf the k bytes a read of the channel returned
read_some(k) ==
    /\ pc = "read_to_end"
    /\ k \in 1..Len(rxbuf[port])
    /\ readbuf' = readbuf \o SubSeq(rxbuf[port], 1, k)
    /\ rxbuf' = [rxbuf EXCEPT ![port] = SubSeq(@, k + 1, Len(@))]
    /\ UNCHANGED <<hvars, trace, ops, result, rts, dtr, written, closed, cvars,
                   pc, eos>>

\* mutant: the read also stops once the last byte read is ';'
read_done_terminator ==
    \/ rxbuf[port] = << >> /\ eos
    \/ readbuf # << >> /\ readbuf[Len(readbuf)] = 59

\* read_to_end returns Ok only when a read reports end-of-stream: nothing
\* is left in the channel and the transport has signalled it
read_done == rxbuf[port] = << >> /\ eos

\* read_to_end returns, Ok at end-of-stream or Err at a failed read, and
\* receive returns with it: the text decoded from buf, or the error
read_return(okRead) ==
    /\ pc = "read_to_end"
    /\ okRead => read_done
    /\ Issue(<<Call("read_to_end", port, port_name, okRead)>>)
    /\ result' = receive_ret(TRUE, okRead, readbuf)
    /\ ops' = Append(ops, Op("receive", readbuf,
                             receive_ret(TRUE, okRead, readbuf).kind,
                             Len(trace), Len(trace) + 1))
    /\ pc' = "idle"
    /\ readbuf' = << >>
    /\ UNCHANGED <<hvars, written, rxbuf, cvars, eos>>

\* the transport signals end-of-stream on the channel the handle owns
SignalEos ==
    /\ handle = "open"
    /\ ~eos
    /\ eos' = TRUE
    /\ UNCHANGED <<hvars, trace, ops, result, rts, dtr, written, rxbuf, closed,
                   cvars, pc, readbuf>>

\* the device puts one byte into the stream, before its end
DeviceStream(b) ==
    /\ handle = "open"
    /\ ~eos
    /\ Len(readbuf) + Len(rxbuf[port]) < MaxStream
    /\ rxbuf' = [rxbuf EXCEPT ![port] = Append(@, b)]
    /\ UNCHANGED <<hvars, trace, ops, result, rts, dtr, written, closed, cvars,
                   rvars>>

\* Drop::drop: set_rts(false) and set_dtr(true), their results unused;
\* then the fields are dropped, which closes the port
drop_calls(ok1, ok2) ==
    <<Call("set_rts(false)", port, port_name, ok1),
      Call("set_dtr(true)", port, port_name, ok2),
      Call("close", port, port_name, TRUE)>>

drop(ok1, ok2) ==
    /\ handle = "open"
    /\ Issue(drop_calls(ok1, ok2))
    /\ Returns("drop", << >>, Ret("drop", "ok", << >>), drop_calls(ok1, ok2))
    /\ handle' = "dropped"
    /\ UNCHANGED <<port, port_name, written, rxbuf, cvars, rvars>>

\* the device puts one byte into the channel the handle owns
DeviceSend(b) ==
    /\ handle = "open"
    /\ Len(rxbuf[port]) < MaxRx
    /\ rxbuf' = [rxbuf EXCEPT ![port] = Append(@, b)]
    /\ UNCHANGED <<hvars, trace, ops, result, rts, dtr, written, closed, cvars, rvars>>

\* check_for_error applied to a text
classify ==
    /\ clsOut = "unapplied"
    /\ clsOut' = check_for_error(clsIn)
    /\ UNCHANGED <<hvars, trace, ops, result, rts, dtr, written, rxbuf, closed, clsIn,
                   rvars>>

\* ---------------------------------------------------------- specifications

Init ==
    /\ handle = "none"
    /\ port = 0
    /\ port_name = ""
    /\ trace = << >>
    /\ ops = << >>
    /\ result = Ret("none", "ok", << >>)
    /\ rts = [ch \in Chans |-> "unset"]
    /\ dtr = [ch \in Chans |-> "unset"]
    /\ written = [ch \in Chans |-> << >>]
    /\ rxbuf = [ch \in Chans |-> << >>]
    /\ closed = {}
    /\ clsIn = << >>
    /\ clsOut = "unapplied"
    /\ pc = "idle"
    /\ readbuf = << >>
    /\ eos = FALSE

Next ==
    \/ \E addr \in Addrs, ok \in BOOLEAN : new(addr, ok)
    \/ \E ok \in BOOLEAN : reconnect(ok)
    \/ \E data \in Payloads, okRts \in BOOLEAN, w \in -1..2 :
           transmit("transmit", data, okRts, w)
    \/ \E p1 \in Selectors, okRts \in BOOLEAN, w \in -1..4 :
           set_antenna(p1, okRts, w)
    \/ \E okRts \in BOOLEAN, w \in -1..3 : frequency_down(okRts, w)
    \/ \E okRts \in BOOLEAN, w \in -1..3 : frequency_up(okRts, w)
    \/ \E okRts, okRead \in BOOLEAN, k \in 0..MaxRx : receive(okRts, okRead, k)
    \/ \E ok1, ok2 \in BOOLEAN : drop(ok1, ok2)
    \/ \E b \in DevBytes : DeviceSend(b)

Spec == Init /\ [][Next]_vars

\* the life of a handle, new to drop, with reconnects, without the three
\* operations that only hand transmit a fixed text
NextConnect ==
    \/ \E addr \in Addrs, ok \in BOOLEAN : new(addr, ok)
    \/ \E ok \in BOOLEAN : reconnect(ok)
    \/ \E data \in Payloads, okRts \in BOOLEAN, w \in -1..2 :
           transmit("transmit", data, okRts, w)
    \/ \E okRts, okRead \in BOOLEAN, k \in 0..MaxRx : receive(okRts, okRead, k)
    \/ \E ok1, ok2 \in BOOLEAN : drop(ok1, ok2)
    \/ \E b \in DevBytes : DeviceSend(b)

SpecConnect == Init /\ [][NextConnect]_vars

\* one receive on a handle opened at channel 1, for every byte stream of up
\* to MaxLen bytes that the channel may yield
InitReceive ==
    /\ handle = "open"
    /\ port = 1
    /\ port_name = "/dev/ttyS0"
    /\ trace = <<Call("open", 1, "/dev/ttyS0", TRUE)>>
    /\ ops = <<Op("new", << >>, "ok", 1, 1)>>
    /\ result = Ret("new", "ok", << >>)
    /\ rts = [ch \in Chans |-> "unset"]
    /\ dtr = [ch \in Chans |-> "unset"]
    /\ written = [ch \in Chans |-> << >>]
    /\ rxbuf \in {[ch \in Chans |-> IF ch = 1 THEN s ELSE << >>] :
                     s \in BoundedSeq(RxBytes, MaxLen)}
    /\ closed = {}
    /\ clsIn = << >>
    /\ clsOut = "unapplied"
    /\ pc = "idle"
    /\ readbuf = << >>
    /\ eos = FALSE

NextReceive ==
    /\ Len(ops) = 1
    /\ \E okRts, okRead \in BOOLEAN, k \in 0..MaxLen : receive(okRts, okRead, k)

SpecReceive == InitReceive /\ [][NextReceive]_vars

\* check_for_error on every text of up to MaxClsLen characters
InitClassify ==
    /\ handle = "none"
    /\ port = 0
    /\ port_name = ""
    /\ trace = << >>
    /\ ops = << >>
    /\ result = Ret("none", "ok", << >>)
    /\ rts = [ch \in Chans |-> "unset"]
    /\ dtr = [ch \in Chans |-> "unset"]
    /\ written = [ch \in Chans |-> << >>]
    /\ rxbuf = [ch \in Chans |-> << >>]
    /\ closed = {}
    /\ clsIn \in BoundedSeq(ClsChars, MaxClsLen)
    /\ clsOut = "unapplied"
    /\ pc = "idle"
    /\ readbuf = << >>
    /\ eos = FALSE

NextClassify == classify

SpecClassify == InitClassify /\ [][NextClassify]_vars

\* one encoded operation on a handle opened at channel 1, set_antenna for
\* every selector a u8 holds
InitEncode ==
    /\ handle = "open"
    /\ port = 1
    /\ port_name = "/dev/ttyS0"
    /\ trace = <<Call("open", 1, "/dev/ttyS0", TRUE)>>
    /\ ops = <<Op("new", << >>, "ok", 1, 1)>>
    /\ result = Ret("new", "ok", << >>)
    /\ rts = [ch \in Chans |-> "unset"]
    /\ dtr = [ch \in Chans |-> "unset"]
    /\ written = [ch \in Chans |-> << >>]
    /\ rxbuf = [ch \in Chans |-> << >>]
    /\ closed = {}
    /\ clsIn = << >>
    /\ clsOut = "unapplied"
    /\ pc = "idle"
    /\ readbuf = << >>
    /\ eos = FALSE

NextEncode ==
    /\ Len(ops) = 1
    /\ \/ \E p1 \in 0..MaxSelector, okRts \in BOOLEAN, w \in -1..6 :
              set_antenna(p1, okRts, w)
       \/ \E okRts \in BOOLEAN, w \in -1..3 : frequency_down(okRts, w)
       \/ \E okRts \in BOOLEAN, w \in -1..3 : frequency_up(okRts, w)

SpecEncode == InitEncode /\ [][NextEncode]_vars

\* one operation on a handle opened at channel 1 whose channel
\* holds a byte stream of up to MaxFaultLen bytes, the fault markers of the
\* device among them
InitFault ==
    /\ handle = "open"
    /\ port = 1
    /\ port_name = "/dev/ttyS0"
    /\ trace = <<Call("open", 1, "/dev/ttyS0", TRUE)>>
    /\ ops = <<Op("new", << >>, "ok", 1, 1)>>
    /\ result = Ret("new", "ok", << >>)
    /\ rts = [ch \in Chans |-> "unset"]
    /\ dtr = [ch \in Chans |-> "unset"]
    /\ written = [ch \in Chans |-> << >>]
    /\ rxbuf \in {[ch \in Chans |-> IF ch = 1 THEN s ELSE << >>] :
                     s \in BoundedSeq(FaultBytes, MaxFaultLen)}
    /\ closed = {}
    /\ clsIn = << >>
    /\ clsOut = "unapplied"
    /\ pc = "idle"
    /\ readbuf = << >>
    /\ eos = FALSE

NextFault ==
    /\ Len(ops) = 1
    /\ \/ \E okRts, okRead \in BOOLEAN, k \in 0..MaxFaultLen :
              receive(okRts, okRead, k)
       \/ \E data \in Payloads, okRts \in BOOLEAN, w \in -1..2 :
              transmit("transmit", data, okRts, w)
       \/ \E p1 \in Selectors, okRts \in BOOLEAN, w \in -1..4 :
              set_antenna(p1, okRts, w)
       \/ \E okRts \in BOOLEAN, w \in -1..3 : frequency_down(okRts, w)
       \/ \E okRts \in BOOLEAN, w \in -1..3 : frequency_up(okRts, w)

SpecFault == InitFault /\ [][NextFault]_vars

\* one receive taken call by call on a handle opened at channel 1, while the
\* device sends and the transport may signal end-of-stream.  A blocking
\* read returns once bytes are in the channel or end-of-stream is
\* signalled, which is what the two fairness conditions say; nothing
\* makes a read fail, and nothing makes the transport signal end-of-stream.
InitBlocking ==
    /\ handle = "open"
    /\ port = 1
    /\ port_name = "/dev/ttyS0"
    /\ trace = <<Call("open", 1, "/dev/ttyS0", TRUE)>>
    /\ ops = <<Op("new", << >>, "ok", 1, 1)>>
    /\ result = Ret("new", "ok", << >>)
    /\ rts = [ch \in Chans |-> "unset"]
    /\ dtr = [ch \in Chans |-> "unset"]
    /\ written = [ch \in Chans |-> << >>]
    /\ rxbuf = [ch \in Chans |-> << >>]
    /\ closed = {}
    /\ clsIn = << >>
    /\ clsOut = "unapplied"
    /\ pc = "idle"
    /\ readbuf = << >>
    /\ eos = FALSE

NextBlocking ==
    \/ \E okRts \in BOOLEAN : receive_begin(okRts)
    \/ \E k \in 1..MaxStream : read_some(k)
    \/ \E okRead \in BOOLEAN : read_return(okRead)
    \/ SignalEos
    \/ \E b \in StreamBytes : DeviceStream(b)

SpecBlocking ==
    /\ InitBlocking
    /\ [][NextBlocking]_vars
    /\ WF_vars(\E k \in 1..MaxStream : read_some(k))
    /\ WF_vars(read_return(TRUE))

\* ------------------------------------------------------------------ claims

\* the operations that go through transmit
TransmitOps == {"transmit", "set_antenna", "frequency_down", "frequency_up"}

\* the transport calls operation e issued, and their names
CallsOf(e) == SubSeq(trace, e.from, e.to)
Names(calls) == [j \in DOMAIN calls |-> calls[j].call]

Last(s) == s[Len(s)]

\* the bytes of buf below 128, in order
AsciiOnly(buf) == SelectSeq(buf, LAMBDA b : b < 128)
\* the control characters of a text (below 32, or DEL), in order
ControlOnly(buf) == SelectSeq(buf, LAMBDA b : b < 32 \/ b = 127)

\* C1: a transmit immediately followed by a receive issues, on the handle's
\* channel and with nothing in between, set_rts(true), write,
\* set_rts(false), read_to_end, in this order; a call that fails ends its
\* operation, so the write is missing exactly when the assertion failed and
\* the read exactly when the deassertion failed.
C1_TransmitThenReceive ==
    \A i \in 1..(Len(ops) - 1) :
        ops[i].op = "transmit" /\ ops[i + 1].op = "receive" =>
            LET seg == SubSeq(trace, ops[i].from, ops[i + 1].to)
                on  == trace[ops[i].from]
                off == trace[ops[i + 1].from]
            IN  /\ ops[i + 1].from = ops[i].to + 1
                /\ \A j \in DOMAIN seg : seg[j].chan = on.chan /\ on.chan # 0
                /\ Names(seg) =
                       <<"set_rts(true)">>
                       \o (IF on.ok THEN <<"write">> ELSE << >>)
                       \o <<"set_rts(false)">>
                       \o (IF off.ok THEN <<"read_to_end">> ELSE << >>)
                /\ ops[i].res = "ok" /\ off.ok =>
                       Names(seg) = <<"set_rts(true)", "write",
                                      "set_rts(false)", "read_to_end">>

\* a successful transmit was followed at once by a successful receive
C1_Witness ==
    \E i \in 1..(Len(ops) - 1) :
        /\ ops[i].op = "transmit" /\ ops[i].res = "ok"
        /\ ops[i + 1].op = "receive" /\ ops[i + 1].res = "ok"

\* C2: whatever operations ran on the handle and however they ended,
\* destroying it issues exactly one set_rts(false) followed by exactly one
\* set_dtr(true) on the channel the handle owns; this runs once per handle,
\* at its destruction and at no other time.
C2_TeardownOnce ==
    LET drops == {i \in DOMAIN ops : ops[i].op = "drop"}
        dtrs  == {j \in DOMAIN trace : trace[j].call = "set_dtr(true)"}
    IN  /\ Cardinality(drops) = (IF handle = "dropped" THEN 1 ELSE 0)
        /\ Cardinality(dtrs) = Cardinality(drops)
        /\ \A i \in drops :
               /\ i = Len(ops)
               /\ SubSeq(Names(CallsOf(ops[i])), 1, 2) =
                      <<"set_rts(false)", "set_dtr(true)">>
               /\ Len(SelectSeq(CallsOf(ops[i]),
                                LAMBDA c : c.call = "set_rts(false)")) = 1
               /\ \A j \in ops[i].from..ops[i].to : trace[j].chan = port

\* the handle was destroyed after two operations, the last of which failed
C2_Witness ==
    /\ handle = "dropped"
    /\ Len(ops) = 4
    /\ ops[3].res # "ok"

\* C3: in teardown set_dtr(true) is issued whether or not set_rts(false)
\* succeeded, and whatever the two calls return teardown completes (the
\* port is closed) and returns no error.
C3_TeardownSwallowsErrors ==
    handle = "dropped" =>
        LET e == Last(ops)
        IN  /\ e.op = "drop"
            /\ e.to >= e.from + 1
            /\ trace[e.from].call = "set_rts(false)"
            /\ trace[e.from + 1].call = "set_dtr(true)"
            /\ port \in closed
            /\ result.op = "drop" /\ result.kind = "ok"
            /\ e.res = "ok"

\* a teardown in which both calls failed
C3_Witness ==
    /\ handle = "dropped"
    /\ ~trace[Last(ops).from].ok
    /\ ~trace[Last(ops).from + 1].ok

\* C4: after a successful transmit (direct or through set_antenna,
\* frequency_down, frequency_up) the request-to-send line of the channel it
\* ran on is asserted, and it is still asserted as long as no receive and
\* no teardown has run since; receive and teardown are the only operations
\* that issue set_rts(false).
C4_RtsStaysAsserted ==
    /\ \A i \in DOMAIN ops :
           (/\ ops[i].op \in TransmitOps
            /\ ops[i].res = "ok"
            /\ \A j \in (i + 1)..Len(ops) : ops[j].op \notin {"receive", "drop"})
           => rts[trace[ops[i].from].chan] = "on"
    /\ \A i \in DOMAIN ops :
           (\E j \in ops[i].from..ops[i].to : trace[j].call = "set_rts(false)")
           => ops[i].op \in {"receive", "drop"}

\* a successful transmit, then another operation that is no receive, and
\* the line of the channel is still asserted
C4_Witness ==
    /\ Len(ops) = 3
    /\ ops[2].op \in TransmitOps /\ ops[2].res = "ok"
    /\ ops[3].op = "reconnect" /\ ops[3].res = "ok"
    /\ rts[1] = "on"

\* C5: a transmit whose set_rts(true) fails returns an I/O error having
\* issued no write; one whose write fails returns an I/O error; success is
\* returned only when both calls succeeded.
C5_TransmitErrors ==
    \A i \in DOMAIN ops :
        ops[i].op \in TransmitOps =>
            LET seg == CallsOf(ops[i])
            IN  /\ Len(seg) >= 1 /\ seg[1].call = "set_rts(true)"
                /\ ~seg[1].ok =>
                       /\ ops[i].res = "io_error"
                       /\ \A j \in DOMAIN seg : seg[j].call # "write"
                /\ seg[1].ok =>
                       /\ Len(seg) = 2 /\ seg[2].call = "write"
                       /\ ~seg[2].ok => ops[i].res = "io_error"
                /\ ops[i].res = "ok" => \A j \in DOMAIN seg : seg[j].ok
                /\ ops[i].res \in {"ok", "io_error"}

\* one transmit failed at the assertion and another at the write
C5_Witness ==
    \E i, j \in DOMAIN ops :
        /\ ops[i].op \in TransmitOps /\ ~trace[ops[i].from].ok
        /\ ops[j].op \in TransmitOps /\ trace[ops[j].from].ok
        /\ ops[j].res = "io_error"

\* C6: a receive whose set_rts(false) fails returns an I/O error having
\* issued no read; one whose read fails returns an I/O error and no text,
\* also when bytes had been read before the failure.
C6_ReceiveErrors ==
    /\ \A i \in DOMAIN ops :
           ops[i].op = "receive" =>
               LET seg == CallsOf(ops[i])
               IN  /\ Len(seg) >= 1 /\ seg[1].call = "set_rts(false)"
                   /\ ~seg[1].ok =>
                          /\ ops[i].res = "io_error"
                          /\ \A j \in DOMAIN seg : seg[j].call # "read_to_end"
                   /\ seg[1].ok =>
                          /\ Len(seg) = 2 /\ seg[2].call = "read_to_end"
                          /\ ~seg[2].ok => ops[i].res = "io_error"
    /\ (/\ result.op = "receive"
        /\ \E j \in Last(ops).from..Last(ops).to : ~trace[j].ok)
       => result.kind = "io_error" /\ result.text = << >>

\* a receive whose read failed after it had read a byte
C6_Witness ==
    /\ result.op = "receive"
    /\ result.kind = "io_error"
    /\ Len(CallsOf(Last(ops))) = 2
    /\ Last(ops).arg # << >>

\* C7: a successful receive returns the bytes below 128 of what the channel
\* held before end-of-stream, in their order, and nothing else; it leaves
\* none of them in the channel.
C7_DecodeKeepsAscii ==
    [][(ops' # ops /\ result'.op = "receive" /\ result'.kind = "ok") =>
           /\ result'.text = AsciiOnly(rxbuf[port])
           /\ rxbuf'[port] = << >>]_vars

\* the channel yielded 0x41 0xFF 0x42 0x3B and receive returned "AB;"
C7_Witness ==
    /\ result.op = "receive" /\ result.kind = "ok"
    /\ Last(ops).arg = <<65, 255, 66, 59>>
    /\ result.text = <<65, 66, 59>>

\* C8 as stated: the text of a successful receive holds printable ASCII
\* characters (32..126) only.
C8_PrintableOnly ==
    result.op = "receive" /\ result.kind = "ok" =>
        \A i \in DOMAIN result.text : result.text[i] \in 32..126

\* C8 as amended: the text of a successful receive holds ASCII characters
\* (0..127) only, and every control character the channel yielded is in
\* it, in order.
C8_AsciiOnly ==
    result.op = "receive" /\ result.kind = "ok" =>
        /\ \A i \in DOMAIN result.text : result.text[i] \in 0..127
        /\ ControlOnly(result.text) = ControlOnly(Last(ops).arg)

\* the channel yielded NUL and LF and both are in the text returned
C8_Witness ==
    /\ result.op = "receive" /\ result.kind = "ok"
    /\ Last(ops).arg = <<0, 255, 10>>
    /\ result.text = <<0, 10>>

\* C9: after a transmit that returned success the channel has accepted all
\* the bytes of data, in order, after what it had accepted before.
C9_TransmitWritesAll ==
    [][(ops' # ops /\ Last(ops').op \in TransmitOps /\ Last(ops').res = "ok") =>
           written'[port] = written[port] \o Last(ops').arg]_vars

\* C10: check_for_error returns SyntaxOrStatus for "?;" and nothing else,
\* CommError for "E;" and nothing else, ProcIncomplete for "O;" and nothing
\* else, and no error for every other text.
C10_ClassifierExact ==
    clsOut # "unapplied" =>
        /\ clsOut \in {"SyntaxOrStatus", "CommError", "ProcIncomplete", "None"}
        /\ clsOut = "SyntaxOrStatus" <=> clsIn = <<63, 59>>
        /\ clsOut = "CommError" <=> clsIn = <<69, 59>>
        /\ clsOut = "ProcIncomplete" <=> clsIn = <<79, 59>>
        /\ clsIn \in {<< >>, <<65, 78, 49, 59>>, <<63, 59, 120>>} => clsOut = "None"

\* the classifier was applied to "?;x" and reported no error
C10_Witness ==
    /\ clsIn = <<63, 59, 120>>
    /\ clsOut = "None"

\* the decimal numeral of a selector below 1000, without leading zeros
Numeral(p) ==
    IF p < 10 THEN <<48 + p>>
    ELSE IF p < 100 THEN <<48 + (p \div 10), 48 + (p % 10)>>
    ELSE <<48 + (p \div 100), 48 + ((p \div 10) % 10), 48 + (p % 10)>>

\* C11: each encoded operation hands write its command text and nothing
\* else, in one write call at most: set_antenna(p) hands it "AN", the
\* decimal numeral of p and ";" for every p in 0..255, frequency_down
\* "BD;" and frequency_up "BU;"; no selector is rejected.
C11_EncoderExact ==
    [][/\ ops' # ops =>
              LET okRts == trace'[Len(trace) + 1].ok
                  w     == IF Last(ops').res = "ok"
                           THEN Len(written'[port]) - Len(written[port])
                           ELSE -1
              IN  \A p \in 0..MaxSelector :
                      set_antenna(p, okRts, w) =>
                          /\ Last(ops').op = "set_antenna"
                          /\ Last(ops').arg = <<65, 78>> \o Numeral(p) \o <<59>>
                          /\ Last(ops').res \in {"ok", "io_error"}
       /\ (ops' # ops /\ Last(ops').op = "frequency_down") =>
              Last(ops').arg = <<66, 68, 59>>
       /\ (ops' # ops /\ Last(ops').op = "frequency_up") =>
              Last(ops').arg = <<66, 85, 59>>
       /\ (ops' # ops /\ Last(ops').op \in TransmitOps) =>
              /\ Cardinality({j \in (Len(trace) + 1)..Len(trace') :
                                  trace'[j].call = "write"}) <= 1
              /\ Last(ops').res = "ok" =>
                     \E j \in (Len(trace) + 1)..Len(trace') :
                         trace'[j].call = "write"]_vars

\* set_antenna(255) succeeded, having handed write "AN255;"
C11_Witness ==
    /\ Last(ops).op = "set_antenna"
    /\ Last(ops).res = "ok"
    /\ Last(ops).arg = <<65, 78, 50, 53, 53, 59>>
    /\ written[port] = <<65, 78, 50, 53, 53, 59>>

\* the open calls in trace, and the reconnect operations in ops
OpenCalls == SelectSeq(trace, LAMBDA c : c.call = "open")
Reconnects == {i \in DOMAIN ops : ops[i].op = "reconnect"}

\* C12: the address new recorded never changes and is the one every
\* reconnect opens; each reconnect makes exactly one open call, so N
\* reconnects make N of them, and each successful one leaves the handle
\* with a channel no earlier open returned.
C12_ReconnectSameAddress ==
    (ops # << >> /\ ops[1].res = "ok") =>
        /\ port_name = trace[1].addr
        /\ \A j \in DOMAIN trace : trace[j].call = "open" => trace[j].addr = trace[1].addr
        /\ Len(OpenCalls) = 1 + Cardinality(Reconnects)
        /\ \A i \in Reconnects :
               /\ trace[ops[i].from].call = "open"
               /\ \A j \in (ops[i].from + 1)..ops[i].to : trace[j].call # "open"
               /\ ops[i].res = "ok" <=> trace[ops[i].from].ok
               /\ ops[i].res = "ok" =>
                      \A j \in 1..(ops[i].from - 1) :
                          trace[j].chan # trace[ops[i].from].chan
        /\ \A j \in DOMAIN trace :
               (trace[j].call = "open" /\ trace[j].ok
                /\ \A k \in (j + 1)..Len(trace) : ~(trace[k].call = "open" /\ trace[k].ok))
               => port = trace[j].chan

\* a handle opened at COM1 was reconnected twice, the second time with
\* success, and owns the channel the last open returned
C12_Witness ==
    /\ Len(ops) = 3
    /\ port_name = "COM1"
    /\ ops[2].op = "reconnect" /\ ops[2].res = "open_error"
    /\ ops[3].op = "reconnect" /\ ops[3].res = "ok"
    /\ port = 2

\* the channels open once the first j calls of trace have been made
OpenAfter(j) ==
    {trace[k].chan : k \in {n \in 1..j : trace[n].call = "open" /\ trace[n].ok}}
    \ {trace[k].chan : k \in {n \in 1..j : trace[n].call = "close"}}

\* C13: reconnect closes the channel the handle owns before it opens the
\* new one, so that at no moment two channels of the handle are open.
C13_CloseBeforeOpen ==
    \A j \in DOMAIN trace : Cardinality(OpenAfter(j)) <= 1

\* C14: when the transport cannot open the address, new returns an open
\* error and there is no handle: no channel is owned, and the failed open
\* is the only transport call there ever is (no control-line call, no
\* write, no read, no teardown, no close).
C14_FailedOpenNoHandle ==
    (ops # << >> /\ ops[1].op = "new" /\ ~trace[1].ok) =>
        /\ ops[1].res = "open_error"
        /\ result = Ret("new", "open_error", << >>)
        /\ handle = "none"
        /\ port = 0
        /\ Len(ops) = 1
        /\ Len(trace) = 1 /\ trace[1].call = "open" /\ trace[1].chan = 0
        /\ closed = {}
        /\ \A ch \in Chans :
               /\ rts[ch] = "unset" /\ dtr[ch] = "unset"
               /\ written[ch] = << >> /\ rxbuf[ch] = << >>

\* new("COM1") failed to open the address
C14_Witness ==
    /\ ops # << >>
    /\ ops[1].op = "new" /\ ops[1].res = "open_error"
    /\ trace[1].addr = "COM1"

\* the three fault markers of the device: "?;", "E;", "O;"
Markers == {<<63, 59>>, <<69, 59>>, <<79, 59>>}

\* C15: no operation returns a device fault: transmit, receive,
\* set_antenna, frequency_down and frequency_up return success or a channel
\* error, the classifier is never applied, and a receive whose calls
\* succeeded on a stream that decodes to "?;", "E;" or "O;" returns that
\* text as data.
C15_NoRadioError ==
    /\ \A i \in DOMAIN ops : ops[i].res \in {"ok", "io_error", "open_error"}
    /\ result.kind \in {"ok", "io_error", "open_error"}
    /\ clsOut = "unapplied"
    /\ (/\ result.op = "receive"
        /\ \A j \in Last(ops).from..Last(ops).to : trace[j].ok
        /\ AsciiOnly(Last(ops).arg) \in Markers)
       => /\ result.kind = "ok"
          /\ result.text = AsciiOnly(Last(ops).arg)

\* the channel yielded 0xFF '?' ';' and receive returned "?;" as data
C15_Witness ==
    /\ result.op = "receive"
    /\ result.kind = "ok"
    /\ Last(ops).arg = <<255, 63, 59>>
    /\ result.text = <<63, 59>>

\* s is t or a beginning of t
IsPrefix(s, t) == Len(s) <= Len(t) /\ SubSeq(t, 1, Len(s)) = s

C17_TransmitNeverReads ==
    /\ [][(ops' # ops /\ Last(ops').op \in TransmitOps) =>
              /\ rxbuf' = rxbuf
              /\ \A j \in (Len(trace) + 1)..Len(trace') :
                     trace'[j].call \in {"set_rts(true)", "write"}
              /\ Last(ops').res = "ok" => trace'[Len(trace')].call = "write"]_vars
    /\ [][\A ch \in Chans :
              ~IsPrefix(rxbuf[ch], rxbuf'[ch]) =>
                  ops' # ops /\ Last(ops').op = "receive"]_vars

\* a transmit succeeded while a byte of the device was in the channel, and
\* the byte is still there
C17_Witness ==
    /\ ops # << >>
    /\ Last(ops).op \in TransmitOps
    /\ Last(ops).res = "ok"
    /\ rxbuf[port] = <<65>>

\* the channel the handle owned when call j of trace was issued: the one
\* returned by the last successful open before it
OwnedBefore(j) ==
    LET opens == {k \in 1..(j - 1) : trace[k].call = "open" /\ trace[k].ok}
    IN  trace[CHOOSE k \in opens : \A n \in opens : n <= k].chan

\* C18: a reconnect whose open fails changes nothing: the handle owns the
\* channel it owned, which is not closed, the address is the same and no
\* line or buffer of any channel has changed; every later transmit,
\* receive and teardown issues its calls on that channel.
C18_FailedReconnectKeepsChannel ==
    /\ [][(ops' # ops /\ Last(ops').op = "reconnect"
           /\ Last(ops').res = "open_error") =>
              /\ handle' = handle /\ port' = port /\ port_name' = port_name
              /\ closed' = closed /\ port' \notin closed'
              /\ rts' = rts /\ dtr' = dtr
              /\ written' = written /\ rxbuf' = rxbuf]_vars
    /\ [](\A i \in DOMAIN ops :
              ops[i].op \in TransmitOps \cup {"receive", "drop"} =>
                  \A j \in ops[i].from..ops[i].to :
                      trace[j].chan = OwnedBefore(ops[i].from))

\* after a failed reconnect a transmit succeeded and the handle was
\* destroyed, all on channel 1, whose lines teardown has reset
C18_Witness ==
    /\ Len(ops) = 4
    /\ ops[2].op = "reconnect" /\ ops[2].res = "open_error"
    /\ ops[3].op = "transmit" /\ ops[3].res = "ok"
    /\ handle = "dropped" /\ port = 1
    /\ written[1] = <<65, 59>>
    /\ rts[1] = "off" /\ dtr[1] = "on"
    /\ closed = {1}

\* C19: reconnect issues an open and, when that succeeded, the close of
\* the channel it replaces, and nothing else: a replaced channel is closed
\* with its lines as they were, request-to-send still asserted when a
\* transmit left it so, and set_dtr(true) is only ever issued on the
\* channel the handle owns when it is destroyed.
C19_ReconnectNoReset ==
    /\ \A i \in Reconnects :
           /\ \A j \in ops[i].from..ops[i].to : trace[j].call \in {"open", "close"}
           /\ ops[i].res = "ok" =>
                  /\ ops[i].to = ops[i].from + 1
                  /\ trace[ops[i].to].call = "close"
                  /\ trace[ops[i].to].chan = OwnedBefore(ops[i].from)
    /\ \A j \in DOMAIN trace :
           trace[j].call = "set_dtr(true)" =>
               handle = "dropped" /\ trace[j].chan = port
    /\ \A ch \in closed : ch # port => dtr[ch] = "unset"
    /\ \A i \in DOMAIN ops :
           (/\ ops[i].op \in TransmitOps /\ ops[i].res = "ok"
            /\ i < Len(ops) /\ ops[i + 1].op = "reconnect" /\ ops[i + 1].res = "ok")
           => LET ch == trace[ops[i].from].chan
              IN  ch \in closed /\ rts[ch] = "on" /\ dtr[ch] = "unset"

\* a transmit asserted the line of channel 1, a reconnect replaced the
\* channel and the handle was destroyed: channel 1 is closed with its line
\* asserted, channel 2 has been reset
C19_Witness ==
    /\ handle = "dropped" /\ port = 2
    /\ closed = {1, 2}
    /\ rts[1] = "on" /\ dtr[1] = "unset"
    /\ rts[2] = "off" /\ dtr[2] = "on"

\* C20: in the trace of transport calls every write comes right after a
\* successful set_rts(true) on the same channel, and every read_to_end
\* right after a successful set_rts(false) on the same channel.
C20_LineBeforeData ==
    \A j \in DOMAIN trace :
        /\ trace[j].call = "write" =>
               /\ j > 1
               /\ trace[j - 1].call = "set_rts(true)"
               /\ trace[j - 1].ok
               /\ trace[j - 1].chan = trace[j].chan
        /\ trace[j].call = "read_to_end" =>
               /\ j > 1
               /\ trace[j - 1].call = "set_rts(false)"
               /\ trace[j - 1].ok
               /\ trace[j - 1].chan = trace[j].chan

\* a write that failed, and after it a read on the same channel
C20_Witness ==
    \E i, j \in DOMAIN trace :
        /\ i < j
        /\ trace[i].call = "write" /\ ~trace[i].ok
        /\ trace[j].call = "read_to_end" /\ trace[j].chan = trace[i].chan

====
